---- MODULE Spec2Model ----
(***************************************************************************)
(* The gopengraph container (OpenGraph.go), its Node and Edge entities and *)
(* their Properties, as a state machine.                                   *)
(*                                                                         *)
(* Go pointers: the graph is the only holder that matters for a stored     *)
(* Node or Edge, so a stored object is named by its map key (nodes) or its *)
(* list position (edges).  An argument *Node / *Edge is a value built by   *)
(* NewNode / NewEdge, or the stored object itself.                         *)
(***************************************************************************)
EXTENDS Integers, Sequences, FiniteSets, TLC

\* ------------------------------------------------------------------ bounds

\* Longest edge list the model explores (AddEdge that would exceed it is not taken).
MaxEdges == 2

\* ------------------------------------------------------- input universes

\* A Go string that is not valid UTF-8 (a lone 0xff byte), and what
\* encoding/json writes for it: the replacement rune U+FFFD.
BadUTF8 == "\\xff"
ReplacementRune == "\\ufffd"

Ids == {"a", "b"}
SourceKinds == {"", "Base"}
\* The strings of the JSON runs: one of them is not valid UTF-8.
IdsJSON == {"a", BadUTF8}
SourceKindsJSON == {"", "Base", BadUTF8}
PropKeys == {"w", "c"}

\* Go dynamic values (interface{}): a reflect kind and a payload.
\* The payload is written as a string ("1", "NaN", "x") so that values of
\* different kinds stay comparable.
GoNil == [t |-> "nil", v |-> ""]
GoInt(i) == [t |-> "int", v |-> i]
GoFloat64(f) == [t |-> "float64", v |-> f]
GoString(s) == [t |-> "string", v |-> s]

GoBool(b) == [t |-> "bool", v |-> b]
\* A value of a kind that is none of the above: "map", "struct", "func", "chan".
GoOther(kind) == [t |-> kind, v |-> ""]
\* A []interface{}: the slice header names its backing array, which every
\* copy of the header shares.
GoSlice(array) == [t |-> "slice", v |-> array]

\* Go slices: nil and empty are different values with the same elements.
NilSlice == [isNil |-> TRUE, elems |-> <<>>]
MakeSlice == [isNil |-> FALSE, elems |-> <<>>]
SliceAppend(s, x) == [isNil |-> FALSE, elems |-> Append(s.elems, x)]
\* append in a loop: the slice stays as it was made when nothing is appended.
SliceAppendAll(s, items) ==
    IF Len(items) = 0 THEN s ELSE [isNil |-> FALSE, elems |-> s.elems \o items]

\* The empty Go map (make(map[string]interface{})).
EmptyMap == [k \in {} |-> GoNil]

\* A *Properties argument: nil, or a pointer to the map m.
NilProperties == [isNil |-> TRUE, m |-> EmptyMap]
PropertiesPtr(m) == [isNil |-> FALSE, m |-> m]

\* ------------------------------------------------------------ Properties

NewProperties == EmptyMap

IsPropertyValueValid(value) ==
    \/ value.t = "nil"
    \/ value.t \in {"string", "int", "int8", "int16", "int32", "int64",
                    "uint", "uint8", "uint16", "uint32", "uint64",
                    "float32", "float64", "bool", "slice"}

\* SetProperty panics on a value that is not valid; the properties are then untouched.
SetProperty(p, key, value) ==
    IF IsPropertyValueValid(value)
    THEN [panic |-> FALSE,
          p |-> [k \in DOMAIN p \cup {key} |-> IF k = key THEN value ELSE p[k]]]
    ELSE [panic |-> TRUE, p |-> p]

RemoveProperty(p, key) == [k \in DOMAIN p \ {key} |-> p[k]]

\* Properties.Clear: the map is replaced by a new one.
PropertiesClear(p) == EmptyMap

GetAllProperties(p) == [k \in DOMAIN p |-> p[k]]

PropertiesToDict(p) == GetAllProperties(p)

\* ------------------------------------------------------------------ Node

\* NewNode: kinds is a Go slice (possibly nil), p a *Properties (possibly nil).
NewNode(id, kinds, p) ==
    IF id = ""
    THEN [ok |-> FALSE, err |-> "node ID cannot be empty"]
    ELSE [ok |-> TRUE,
          node |-> [id |-> id,
                    kinds |-> IF kinds.isNil THEN <<>> ELSE kinds.elems,
                    properties |-> IF p.isNil THEN NewProperties ELSE p.m]]

HasKind(n, kind) == \E i \in 1..Len(n.kinds) : n.kinds[i] = kind

\* Mutant: the kind is put first.
AddKind_Prepend(n, kind) ==
    IF ~HasKind(n, kind) THEN [n EXCEPT !.kinds = <<kind>> \o @] ELSE n

AddKind(n, kind) ==
    IF ~HasKind(n, kind) THEN [n EXCEPT !.kinds = Append(@, kind)] ELSE n

\* RemoveKind: the first occurrence of the kind is cut out, then the loop returns.
RemoveKind(n, kind) ==
    IF HasKind(n, kind)
    THEN LET i == CHOOSE j \in 1..Len(n.kinds) :
                      /\ n.kinds[j] = kind
                      /\ \A k \in 1..(j - 1) : n.kinds[k] # kind
         IN  [n EXCEPT !.kinds = SubSeq(@, 1, i - 1) \o SubSeq(@, i + 1, Len(@))]
    ELSE n

NodeToDict(n) ==
    [id |-> n.id,
     kinds |-> [isNil |-> FALSE, elems |-> n.kinds],
     properties |-> GetAllProperties(n.properties)]

\* ------------------------------------------------------------------ Edge

\* Mutant: the kind is looked at first.
NewEdge_KindFirst(startNodeID, endNodeID, kind, p) ==
    IF kind = "" THEN [ok |-> FALSE, err |-> "edge kind cannot be empty"]
    ELSE IF startNodeID = "" THEN [ok |-> FALSE, err |-> "start node ID cannot be empty"]
    ELSE IF endNodeID = "" THEN [ok |-> FALSE, err |-> "end node ID cannot be empty"]
    ELSE [ok |-> TRUE,
          edge |-> [startNodeID |-> startNodeID,
                    endNodeID |-> endNodeID,
                    kind |-> kind,
                    properties |-> IF p.isNil THEN NewProperties ELSE p.m]]

NewEdge(startNodeID, endNodeID, kind, p) ==
    IF startNodeID = "" THEN [ok |-> FALSE, err |-> "start node ID cannot be empty"]
    ELSE IF endNodeID = "" THEN [ok |-> FALSE, err |-> "end node ID cannot be empty"]
    ELSE IF kind = "" THEN [ok |-> FALSE, err |-> "edge kind cannot be empty"]
    ELSE [ok |-> TRUE,
          edge |-> [startNodeID |-> startNodeID,
                    endNodeID |-> endNodeID,
                    kind |-> kind,
                    properties |-> IF p.isNil THEN NewProperties ELSE p.m]]

\* Mutant: the comparison also looks at the properties.
EdgeEqual_WithProperties(e, other) ==
    /\ e.startNodeID = other.startNodeID
    /\ e.endNodeID = other.endNodeID
    /\ e.kind = other.kind
    /\ e.properties = other.properties

EdgeEqual(e, other) ==
    /\ e.startNodeID = other.startNodeID
    /\ e.endNodeID = other.endNodeID
    /\ e.kind = other.kind

\* Mutant: the properties entry is always written.
EdgeToDict_AlwaysProperties(e) ==
    [kind |-> e.kind,
     start |-> [value |-> e.startNodeID, match_by |-> "id"],
     end |-> [value |-> e.endNodeID, match_by |-> "id"],
     properties |-> PropertiesToDict(e.properties)]

\* Edge.ToDict: a Go map; the properties entry only when there is a property.
EdgeToDict(e) ==
    LET edgeDict == [kind |-> e.kind,
                     start |-> [value |-> e.startNodeID, match_by |-> "id"],
                     end |-> [value |-> e.endNodeID, match_by |-> "id"]]
        props == PropertiesToDict(e.properties)
    IN  IF Cardinality(DOMAIN props) > 0
        THEN edgeDict @@ [properties |-> props]
        ELSE edgeDict

NilEdge == [isNil |-> TRUE]
EdgePtr(e) == [isNil |-> FALSE, obj |-> e]

\* ----------------------------------------------------------------- state

VARIABLES
    sourceKind,  \* OpenGraph.sourceKind
    nodes,       \* OpenGraph.nodes: id -> Node
    edges,       \* OpenGraph.edges: sequence of Edge
    edge,        \* a standalone *Edge held by the caller (NilEdge when none)
    props,       \* a standalone *Properties held by the caller: its map
    dict,        \* the map a GetAllProperties call returned to the caller
    arrays,      \* the backing arrays of the slices the caller made: name -> elements
    run,         \* the FindPaths or GetConnectedComponents call in progress
    ret          \* the last call: [op, arg, ok, out]

vars == <<sourceKind, nodes, edges, edge, props, dict, arrays, run, ret>>

\* What the calls on the graph and on an Edge leave alone.
callerVars == <<props, dict, arrays, run>>

\* No map was returned yet.
NilDict == [isNil |-> TRUE, m |-> [k \in {} |-> GoNil]]

\* No call is in progress.
Idle == [pc |-> "idle"]

\* The caller holds no Properties of its own, and no call is in progress.
InitCallerVars ==
    /\ props = NewProperties
    /\ dict = NilDict
    /\ arrays = [r \in {} |-> <<>>]
    /\ run = Idle

\* The receiver *OpenGraph as a value.
G == [nodes |-> nodes, edges |-> edges, sourceKind |-> sourceKind]

NewOpenGraph(sk) ==
    [nodes |-> [id \in {} |-> 0], edges |-> <<>>, sourceKind |-> sk]

\* ------------------------------------------------------- graph mutators

AddEdgeWithoutValidation(g, e) ==
    [g |-> [g EXCEPT !.edges = Append(@, e)], ok |-> TRUE]

\* Mutant: the end node is not looked up.
AddEdge_NoEndCheck(g, e) ==
    IF e.startNodeID \notin DOMAIN g.nodes THEN [g |-> g, ok |-> FALSE]
    ELSE IF \E i \in 1..Len(g.edges) : EdgeEqual(g.edges[i], e)
         THEN [g |-> g, ok |-> FALSE]
    ELSE AddEdgeWithoutValidation(g, e)

AddEdge(g, e) ==
    IF e.startNodeID \notin DOMAIN g.nodes THEN [g |-> g, ok |-> FALSE]
    ELSE IF e.endNodeID \notin DOMAIN g.nodes THEN [g |-> g, ok |-> FALSE]
    ELSE IF \E i \in 1..Len(g.edges) : EdgeEqual(g.edges[i], e)
         THEN [g |-> g, ok |-> FALSE]
    ELSE AddEdgeWithoutValidation(g, e)

\* node is the argument object as the call leaves it.
AddNodeWithoutValidation(g, n) ==
    [g |-> [g EXCEPT !.nodes = [id \in DOMAIN @ \cup {n.id} |->
                                   IF id = n.id THEN n ELSE @[id]]],
     ok |-> TRUE,
     node |-> n]

\* Mutant: the source kind is stamped before the node is looked up.
AddNode_StampFirst(g, n) ==
    LET m == IF g.sourceKind # "" /\ ~HasKind(n, g.sourceKind)
             THEN AddKind(n, g.sourceKind)
             ELSE n
    IN  IF n.id \in DOMAIN g.nodes THEN [g |-> g, ok |-> FALSE, node |-> m]
        ELSE AddNodeWithoutValidation(g, m)

AddNode(g, n) ==
    IF n.id \in DOMAIN g.nodes THEN [g |-> g, ok |-> FALSE, node |-> n]
    ELSE AddNodeWithoutValidation(g,
             IF g.sourceKind # "" /\ ~HasKind(n, g.sourceKind)
             THEN AddKind(n, g.sourceKind)
             ELSE n)

\* Mutant: only the start of an edge is compared.
KeepEdge_StartOnly(e, id) == e.startNodeID # id

KeepEdge(e, id) == e.startNodeID # id /\ e.endNodeID # id

\* Mutant: the kept edges are collected in front of one another.
RemoveNodeByID_Reversed(g, id) ==
    IF id \notin DOMAIN g.nodes THEN [g |-> g, ok |-> FALSE]
    ELSE LET kept == SelectSeq(g.edges, LAMBDA e : KeepEdge(e, id))
         IN  [g |-> [g EXCEPT
                       !.nodes = [i \in DOMAIN @ \ {id} |-> @[i]],
                       !.edges = [k \in 1..Len(kept) |-> kept[Len(kept) + 1 - k]]],
              ok |-> TRUE]

RemoveNodeByID(g, id) ==
    IF id \notin DOMAIN g.nodes THEN [g |-> g, ok |-> FALSE]
    ELSE [g |-> [g EXCEPT
                   !.nodes = [i \in DOMAIN @ \ {id} |-> @[i]],
                   !.edges = SelectSeq(@, LAMBDA e : KeepEdge(e, id))],
          ok |-> TRUE]

\* Mutant: the graph is replaced by a new one, made without a source kind.
Clear_Fresh(g) == NewOpenGraph("")

Clear(g) == [g EXCEPT !.nodes = [id \in {} |-> 0], !.edges = <<>>]

\* --------------------------------------------------------- graph queries

\* A *Node result: nil, or the stored node.
NilNode == [isNil |-> TRUE]
NodePtr(n) == [isNil |-> FALSE, obj |-> n]

\* g.nodes[id]: the zero value (a nil pointer) when the key is absent.
GetNode(g, id) == IF id \in DOMAIN g.nodes THEN NodePtr(g.nodes[id]) ELSE NilNode

\* order: the order in which range visits the keys of g.nodes.
\* var nodes []*node.Node, appended to in that order: nil when none matches.
GetNodesByKind(g, kind, order) ==
    LET ids == SelectSeq(order, LAMBDA id : HasKind(g.nodes[id], kind))
    IN  SliceAppendAll(NilSlice, [i \in 1..Len(ids) |-> g.nodes[ids[i]]])

\* Mutant: the kind is not compared.
GetEdgesByKind_Any(g, kind) == SliceAppendAll(NilSlice, g.edges)

GetEdgesByKind(g, kind) ==
    SliceAppendAll(NilSlice, SelectSeq(g.edges, LAMBDA e : e.kind = kind))

\* var edges []*edge.Edge, appended to in list order: nil when none matches.
GetEdgesFromNode(g, id) ==
    SliceAppendAll(NilSlice, SelectSeq(g.edges, LAMBDA e : e.startNodeID = id))

GetEdgesToNode(g, id) ==
    SliceAppendAll(NilSlice, SelectSeq(g.edges, LAMBDA e : e.endNodeID = id))

\* Mutant: the edges are followed against their direction.
NextIDs_Reversed(g, id) ==
    LET es == GetEdgesToNode(g, id).elems
    IN  [i \in 1..Len(es) |-> es[i].startNodeID]

\* Mutant: only the first edge leaving the node is followed.
NextIDs_FirstOnly(g, id) ==
    LET es == GetEdgesFromNode(g, id).elems
    IN  [i \in 1..(IF Len(es) > 0 THEN 1 ELSE 0) |-> es[i].endNodeID]

\* FindPaths: the nextID of each edge the inner loop ranges over.
NextIDs(g, id) ==
    LET es == GetEdgesFromNode(g, id).elems
    IN  [i \in 1..Len(es) |-> es[i].endNodeID]

\* Mutant: the head of the queue is expanded one level too few.
WithinDepth_Strict(path, maxDepth) == Len(path) < maxDepth

\* FindPaths: the depth part of the loop condition.
WithinDepth(path, maxDepth) == Len(path) <= maxDepth

\* Mutant: a found path is put in front of the paths found before.
AppendPath_Front(paths, newPath) ==
    [isNil |-> FALSE, elems |-> <<newPath>> \o paths.elems]

\* FindPaths: paths = append(paths, newPath).
AppendPath(paths, newPath) == SliceAppend(paths, newPath)

\* Mutant: an id put on the queue is not marked visited.
RECURSIVE FindPathsExpand_NoMark(_, _, _, _, _)
FindPathsExpand_NoMark(nextIDs, i, current, endID, st) ==
    IF i > Len(nextIDs) THEN st
    ELSE LET nextID == nextIDs[i]
             newPath == Append(current.path, nextID)
             st1 == IF nextID \in st.visited THEN st
                    ELSE IF nextID = endID
                         THEN [st EXCEPT !.paths = AppendPath(@, newPath)]
                    ELSE [st EXCEPT !.queue = Append(@, [id |-> nextID, path |-> newPath])]
         IN  FindPathsExpand_NoMark(nextIDs, i + 1, current, endID, st1)

\* FindPaths: the inner loop over the edges leaving current, from the i-th on.
\* st = [queue, visited, paths].
RECURSIVE FindPathsExpand(_, _, _, _, _)
FindPathsExpand(nextIDs, i, current, endID, st) ==
    IF i > Len(nextIDs) THEN st
    ELSE LET nextID == nextIDs[i]
             newPath == Append(current.path, nextID)
             st1 == IF nextID \in st.visited THEN st
                    ELSE IF nextID = endID
                         THEN [st EXCEPT !.paths = AppendPath(@, newPath)]
                    ELSE [st EXCEPT !.visited = @ \cup {nextID},
                                    !.queue = Append(@, [id |-> nextID, path |-> newPath])]
         IN  FindPathsExpand(nextIDs, i + 1, current, endID, st1)

\* FindPaths: the outer loop.
RECURSIVE FindPathsLoop(_, _, _, _)
FindPathsLoop(g, endID, maxDepth, st) ==
    IF Len(st.queue) > 0 /\ WithinDepth(st.queue[1].path, maxDepth)
    THEN LET current == Head(st.queue)
         IN  FindPathsLoop(g, endID, maxDepth,
                 FindPathsExpand(NextIDs(g, current.id), 1, current, endID,
                                 [st EXCEPT !.queue = Tail(@)]))
    ELSE st.paths

\* Mutant: start and end are compared before they are looked up.
FindPaths_EqualFirst(g, startID, endID, maxDepth) ==
    IF startID = endID THEN SliceAppend(MakeSlice, <<startID>>)
    ELSE IF startID \notin DOMAIN g.nodes THEN NilSlice
    ELSE IF endID \notin DOMAIN g.nodes THEN NilSlice
    ELSE FindPathsLoop(g, endID, maxDepth,
             [queue |-> <<[id |-> startID, path |-> <<startID>>]>>,
              visited |-> {startID},
              paths |-> NilSlice])

\* Mutant: start = end is left to the search.
FindPaths_NoTrivial(g, startID, endID, maxDepth) ==
    IF startID \notin DOMAIN g.nodes THEN NilSlice
    ELSE IF endID \notin DOMAIN g.nodes THEN NilSlice
    ELSE FindPathsLoop(g, endID, maxDepth,
             [queue |-> <<[id |-> startID, path |-> <<startID>>]>>,
              visited |-> {startID},
              paths |-> NilSlice])

\* The result is a [][]string: nil, or the paths in the order they were found.
FindPaths(g, startID, endID, maxDepth) ==
    IF startID \notin DOMAIN g.nodes THEN NilSlice
    ELSE IF endID \notin DOMAIN g.nodes THEN NilSlice
    ELSE IF startID = endID THEN SliceAppend(MakeSlice, <<startID>>)
    ELSE FindPathsLoop(g, endID, maxDepth,
             [queue |-> <<[id |-> startID, path |-> <<startID>>]>>,
              visited |-> {startID},
              paths |-> NilSlice])

\* Mutant: only the edges leaving the node are followed.
Adjacent_OutgoingOnly(g, id, visited) ==
    LET from == GetEdgesFromNode(g, id).elems
    IN  SelectSeq([i \in 1..Len(from) |-> from[i].endNodeID], LAMBDA x : x \notin visited)

\* GetConnectedComponents: what the two loops push for the node id, in
\* order: the not yet visited ends of its outgoing edges, then the not yet
\* visited starts of its incoming edges.
Adjacent(g, id, visited) ==
    LET from == GetEdgesFromNode(g, id).elems
        to == GetEdgesToNode(g, id).elems
    IN  SelectSeq([i \in 1..Len(from) |-> from[i].endNodeID], LAMBDA x : x \notin visited)
        \o SelectSeq([i \in 1..Len(to) |-> to[i].startNodeID], LAMBDA x : x \notin visited)

\* GetConnectedComponents: the loop over the stack.
\* st = [stack, visited, component].
RECURSIVE ComponentLoop(_, _)
ComponentLoop(g, st) ==
    IF Len(st.stack) = 0 THEN st
    ELSE LET current == st.stack[Len(st.stack)]
             popped == SubSeq(st.stack, 1, Len(st.stack) - 1)
         IN  IF current \in st.visited
             THEN ComponentLoop(g, [st EXCEPT !.stack = popped])
             ELSE LET visited1 == st.visited \cup {current}
                  IN  ComponentLoop(g,
                          [stack |-> popped \o Adjacent(g, current, visited1),
                           visited |-> visited1,
                           component |-> st.component \cup {current}])

\* Mutant: an id that was visited already is left on the stack.
ComponentStep_NoPop(g, st) ==
    LET current == st.stack[Len(st.stack)]
        popped == SubSeq(st.stack, 1, Len(st.stack) - 1)
    IN  IF current \in st.visited
        THEN st
        ELSE LET visited1 == st.visited \cup {current}
             IN  [stack |-> popped \o Adjacent(g, current, visited1),
                  visited |-> visited1,
                  component |-> st.component \cup {current}]

\* GetConnectedComponents: one turn of the loop over the stack (the stack is
\* not empty).
ComponentStep(g, st) ==
    LET current == st.stack[Len(st.stack)]
        popped == SubSeq(st.stack, 1, Len(st.stack) - 1)
    IN  IF current \in st.visited
        THEN [st EXCEPT !.stack = popped]
        ELSE LET visited1 == st.visited \cup {current}
             IN  [stack |-> popped \o Adjacent(g, current, visited1),
                  visited |-> visited1,
                  component |-> st.component \cup {current}]

\* GetConnectedComponents: the loop over the nodes, from the i-th of order on.
RECURSIVE ComponentsFrom(_, _, _, _, _)
ComponentsFrom(g, order, i, visited, components) ==
    IF i > Len(order) THEN components
    ELSE IF order[i] \in visited
         THEN ComponentsFrom(g, order, i + 1, visited, components)
    ELSE LET st == ComponentLoop(g, [stack |-> <<order[i]>>,
                                     visited |-> visited,
                                     component |-> {}])
         IN  ComponentsFrom(g, order, i + 1, st.visited,
                            SliceAppend(components, st.component))

\* order: the order in which range visits the keys of g.nodes.  The result
\* is a []map[string]bool, each map written as the set of its keys (every
\* value is true).
GetConnectedComponents(g, order) == ComponentsFrom(g, order, 1, {}, NilSlice)

\* fmt.Sprintf(format, args...): the text, written as its format and the
\* values put into it.
Sprintf(format, args) == [format |-> format, args |-> args]

\* ValidateGraph: the findings of the edges from the i-th on, appended to errors.
RECURSIVE OrphanedEdgeErrors(_, _, _)
OrphanedEdgeErrors(g, i, errors) ==
    IF i > Len(g.edges) THEN errors
    ELSE LET e == g.edges[i]
             e1 == IF e.startNodeID \notin DOMAIN g.nodes
                   THEN SliceAppend(errors,
                            Sprintf("Edge %s references non-existent start node: %s",
                                    <<e.kind, e.startNodeID>>))
                   ELSE errors
             e2 == IF e.endNodeID \notin DOMAIN g.nodes
                   THEN SliceAppend(e1,
                            Sprintf("Edge %s references non-existent end node: %s",
                                    <<e.kind, e.endNodeID>>))
                   ELSE e1
         IN  OrphanedEdgeErrors(g, i + 1, e2)

\* Mutant: a node counts as isolated as soon as no edge leaves it.
IsIsolated_NoOutgoing(g, id) == Len(GetEdgesFromNode(g, id).elems) = 0

\* ValidateGraph: the test a node is listed as isolated on.
IsIsolated(g, id) ==
    Len(GetEdgesFromNode(g, id).elems) = 0 /\ Len(GetEdgesToNode(g, id).elems) = 0

\* order: the order in which range visits the keys of g.nodes.
ValidateGraph(g, order) ==
    LET errors == OrphanedEdgeErrors(g, 1, NilSlice)
        isolatedNodes == SliceAppendAll(NilSlice,
                             SelectSeq(order, LAMBDA id : IsIsolated(g, id)))
    IN  IF Len(isolatedNodes.elems) > 0
        THEN SliceAppend(errors,
                 Sprintf("Found %d isolated nodes: %v",
                         <<Len(isolatedNodes.elems), isolatedNodes.elems>>))
        ELSE errors

\* ----------------------------------------------------------- JSON values

\* What a JSON text denotes: null, a string, a number, an array or an object.
JNull == [j |-> "null"]
JString(s) == [j |-> "string", v |-> s]
JNumber(n) == [j |-> "number", v |-> n]
JArray(a) == [j |-> "array", v |-> a]
JObject(o) == [j |-> "object", v |-> o]

\* encoding/json writes a string coerced to valid UTF-8: an invalid byte
\* becomes the replacement rune.
CoerceUTF8(s) == IF s = BadUTF8 THEN ReplacementRune ELSE s

MarshalString(s) == JString(CoerceUTF8(s))

\* json: unsupported value (NaN and the infinities have no JSON form).
MarshalFails(value) ==
    value.t \in {"float32", "float64"} /\ value.v \in {"NaN", "+Inf", "-Inf"}

MarshalValue(value) ==
    CASE value.t = "nil" -> JNull
      [] value.t = "string" -> MarshalString(value.v)
      [] OTHER -> JNumber(value.v)

MarshalProperties(m) == JObject([k \in DOMAIN m |-> MarshalValue(m[k])])

\* A nil slice is written null, any other slice as an array.
MarshalStringSlice(s) ==
    IF s.isNil THEN JNull
    ELSE JArray([i \in 1..Len(s.elems) |-> MarshalString(s.elems[i])])

MarshalNodeDict(d) ==
    JObject([id |-> MarshalString(d.id),
             kinds |-> MarshalStringSlice(d.kinds),
             properties |-> MarshalProperties(d.properties)])

MarshalEndpoint(m) ==
    JObject([value |-> MarshalString(m.value), match_by |-> MarshalString(m.match_by)])

MarshalEdgeDict(d) ==
    JObject([k \in DOMAIN d |->
               CASE k = "kind" -> MarshalString(d.kind)
                 [] k = "start" -> MarshalEndpoint(d.start)
                 [] k = "end" -> MarshalEndpoint(d.end)
                 [] k = "properties" -> MarshalProperties(d.properties)])

MarshalNodesData(s) ==
    IF s.isNil THEN JNull
    ELSE JArray([i \in 1..Len(s.elems) |-> MarshalNodeDict(s.elems[i])])

MarshalEdgesData(s) ==
    IF s.isNil THEN JNull
    ELSE JArray([i \in 1..Len(s.elems) |-> MarshalEdgeDict(s.elems[i])])

DictFails(d) ==
    "properties" \in DOMAIN d /\ \E k \in DOMAIN d.properties : MarshalFails(d.properties[k])

\* json.MarshalIndent(graphData, "", "  "): the document, or an error.
MarshalIndent(graphData) ==
    LET content == graphData.graph
    IN  IF \/ \E i \in 1..Len(content.nodes.elems) : DictFails(content.nodes.elems[i])
           \/ \E i \in 1..Len(content.edges.elems) : DictFails(content.edges.elems[i])
        THEN [err |-> TRUE, doc |-> JNull]
        ELSE [err |-> FALSE,
              doc |-> JObject([k \in DOMAIN graphData |->
                         CASE k = "graph" ->
                                JObject([nodes |-> MarshalNodesData(content.nodes),
                                         edges |-> MarshalEdgesData(content.edges)])
                           [] k = "metadata" ->
                                JObject([source_kind |->
                                           MarshalString(graphData.metadata.source_kind)])])]

\* ---------------------------------------------------------------- export

\* Mutant: nodesData is declared (var nodesData []map[string]interface{}), not made.
ExportNodesData_NilSlice(g, order) ==
    SliceAppendAll(NilSlice, [i \in 1..Len(order) |-> NodeToDict(g.nodes[order[i]])])

\* order: the order in which range visits the keys of g.nodes.
ExportNodesData(g, order) ==
    SliceAppendAll(MakeSlice, [i \in 1..Len(order) |-> NodeToDict(g.nodes[order[i]])])

ExportEdgesData(g) ==
    SliceAppendAll(MakeSlice, [i \in 1..Len(g.edges) |-> EdgeToDict(g.edges[i])])

ExportWithMetadata(g, includeMetadata) == includeMetadata /\ g.sourceKind # ""

ExportJSON(g, includeMetadata, order) ==
    LET graphContent == [nodes |-> ExportNodesData(g, order), edges |-> ExportEdgesData(g)]
        graphData == IF ExportWithMetadata(g, includeMetadata)
                     THEN [graph |-> graphContent,
                           metadata |-> [source_kind |-> g.sourceKind]]
                     ELSE [graph |-> graphContent]
        m == MarshalIndent(graphData)
    IN  IF m.err THEN [ok |-> FALSE, out |-> JNull] ELSE [ok |-> TRUE, out |-> m.doc]

\* The orders range may visit a map's keys in: every arrangement of them.
RangeOrders(m) ==
    {o \in [1..Cardinality(DOMAIN m) -> DOMAIN m] :
        \A i, k \in 1..Cardinality(DOMAIN m) : o[i] = o[k] => i = k}

\* ---------------------------------------------------------------- import

\* json.Unmarshal into interface{}: every number becomes a float64.
UnmarshalValue(jv) ==
    CASE jv.j = "null" -> GoNil
      [] jv.j = "string" -> GoString(jv.v)
      [] jv.j = "number" -> GoFloat64(jv.v)

UnmarshalProperties(jo) == [k \in DOMAIN jo.v |-> UnmarshalValue(jo.v[k])]

UnmarshalKinds(ja) ==
    IF ja.j = "null" THEN NilSlice
    ELSE [isNil |-> FALSE, elems |-> [i \in 1..Len(ja.v) |-> ja.v[i].v]]

JElems(ja) == IF ja.j = "array" THEN ja.v ELSE <<>>

RECURSIVE ImportNodes(_, _, _)
ImportNodes(g, arr, i) ==
    IF i > Len(arr) THEN g
    ELSE LET o == arr[i].v
             r == NewNode(o.id.v, UnmarshalKinds(o.kinds),
                          PropertiesPtr(UnmarshalProperties(o.properties)))
         IN  ImportNodes(IF r.ok THEN AddNode(g, r.node).g ELSE g, arr, i + 1)

RECURSIVE ImportEdges(_, _, _)
ImportEdges(g, arr, i) ==
    IF i > Len(arr) THEN g
    ELSE LET o == arr[i].v
             r == NewEdge(o.start.v.value.v, o.end.v.value.v, o.kind.v,
                          IF "properties" \in DOMAIN o
                          THEN PropertiesPtr(UnmarshalProperties(o.properties))
                          ELSE NilProperties)
         IN  ImportEdges(IF r.ok THEN AddEdge(g, r.edge).g ELSE g, arr, i + 1)

\* FromJSON: the nodes first, then the edges, then sourceKind from the metadata.
FromJSON(g, doc) ==
    LET g1 == ImportNodes(g, JElems(doc.v.graph.v.nodes), 1)
        g2 == ImportEdges(g1, JElems(doc.v.graph.v.edges), 1)
    IN  [g2 EXCEPT !.sourceKind = IF "metadata" \in DOMAIN doc.v
                                  THEN doc.v.metadata.v.source_kind.v
                                  ELSE @]

\* ----------------------------------------------------------- call inputs

\* The (kinds, properties) arguments NewNode is called with.
NodeCtorArgs ==
    {<<[isNil |-> FALSE, elems |-> <<"P">>], PropertiesPtr([w |-> GoInt("1")])>>,
     <<[isNil |-> FALSE, elems |-> <<"Base", "P">>], NilProperties>>}

\* For the JSON runs: a node with a kind and a property, and a node with no
\* kinds whose property has no JSON form.
NodeCtorArgsJSON ==
    {<<[isNil |-> FALSE, elems |-> <<"P">>], PropertiesPtr([w |-> GoInt("1")])>>,
     <<NilSlice, PropertiesPtr([w |-> GoFloat64("NaN")])>>}

PropertiesArgs == {NilProperties, PropertiesPtr([w |-> GoInt("1")])}

\* The *Node arguments: what NewNode builds for the ids.
NodeArgs(ids, ctorArgs) == {NewNode(id, a[1], a[2]).node : id \in ids, a \in ctorArgs}

\* The (kind, properties) arguments NewEdge is called with.
EdgeCtorArgs ==
    {<<"K1", NilProperties>>,
     <<"K1", PropertiesPtr([w |-> GoInt("1")])>>,
     <<"K2", NilProperties>>}

EdgeCtorArgsJSON ==
    {<<"K1", PropertiesPtr([w |-> GoInt("1")])>>,
     <<"K2", NilProperties>>}

\* The *Edge arguments: what NewEdge builds between the ids.
EdgeArgs(ids, ctorArgs) ==
    {NewEdge(s, t, a[1], a[2]).edge : s \in ids, t \in ids, a \in ctorArgs}

\* The nodes the graph holds (a caller may pass one of them again).
StoredNodes == {nodes[id] : id \in DOMAIN nodes}

\* --------------------------------------------------------------- actions

SetG(g) ==
    /\ nodes' = g.nodes
    /\ edges' = g.edges
    /\ sourceKind' = g.sourceKind

Init ==
    /\ sourceKind \in SourceKinds
    /\ nodes = NewOpenGraph(sourceKind).nodes
    /\ edges = NewOpenGraph(sourceKind).edges
    /\ edge = NilEdge
    /\ InitCallerVars
    /\ ret = [op |-> "NewOpenGraph", arg |-> sourceKind, ok |-> TRUE, out |-> <<>>]

CallAddNode(n) ==
    LET r == AddNode(G, n)
    IN  /\ SetG(r.g)
        /\ ret' = [op |-> "AddNode", arg |-> n, ok |-> r.ok, out |-> r.node]
        /\ UNCHANGED <<edge, callerVars>>

CallAddEdge(e) ==
    LET r == AddEdge(G, e)
    IN  /\ Len(r.g.edges) <= MaxEdges
        /\ SetG(r.g)
        /\ ret' = [op |-> "AddEdge", arg |-> e, ok |-> r.ok, out |-> <<>>]
        /\ UNCHANGED <<edge, callerVars>>

\* out: how many edges the call pruned.
CallRemoveNodeByID(id) ==
    LET r == RemoveNodeByID(G, id)
    IN  /\ SetG(r.g)
        /\ ret' = [op |-> "RemoveNodeByID", arg |-> id, ok |-> r.ok,
                   out |-> Len(edges) - Len(r.g.edges)]
        /\ UNCHANGED <<edge, callerVars>>

\* out: how many nodes and edges the graph held.
CallClear ==
    /\ SetG(Clear(G))
    /\ ret' = [op |-> "Clear", arg |-> "", ok |-> TRUE,
               out |-> <<Cardinality(DOMAIN nodes), Len(edges)>>]
    /\ UNCHANGED <<edge, callerVars>>

CallExportJSON(includeMetadata) ==
    \E order \in RangeOrders(nodes) :
        LET r == ExportJSON(G, includeMetadata, order)
        IN  /\ ret' = [op |-> "ExportJSON", arg |-> includeMetadata, ok |-> r.ok,
                       out |-> r.out]
            /\ UNCHANGED <<sourceKind, nodes, edges, edge, callerVars>>

\* jsonData := g.ExportJSON(true); NewOpenGraph("").FromJSON(jsonData)
\* out: the imported graph.
CallRoundTrip ==
    \E order \in RangeOrders(nodes) :
        LET r == ExportJSON(G, TRUE, order)
        IN  /\ r.ok
            /\ ret' = [op |-> "FromJSON", arg |-> r.out, ok |-> TRUE,
                       out |-> FromJSON(NewOpenGraph(""), r.out)]
            /\ UNCHANGED <<sourceKind, nodes, edges, edge, callerVars>>

Next ==
    \/ \E n \in NodeArgs(Ids, NodeCtorArgs) \cup StoredNodes : CallAddNode(n)
    \/ \E e \in EdgeArgs(Ids, EdgeCtorArgs) : CallAddEdge(e)
    \/ \E id \in Ids : CallRemoveNodeByID(id)
    \/ CallClear
    \/ \E b \in BOOLEAN : CallExportJSON(b)

Spec == Init /\ [][Next]_vars

\* Export and import of graphs built by AddNode and AddEdge.
InitJSON ==
    /\ sourceKind \in SourceKindsJSON
    /\ nodes = NewOpenGraph(sourceKind).nodes
    /\ edges = NewOpenGraph(sourceKind).edges
    /\ edge = NilEdge
    /\ InitCallerVars
    /\ ret = [op |-> "NewOpenGraph", arg |-> sourceKind, ok |-> TRUE, out |-> <<>>]

NextJSON ==
    \/ \E n \in NodeArgs(IdsJSON, NodeCtorArgsJSON) : CallAddNode(n)
    \/ \E e \in EdgeArgs(IdsJSON, EdgeCtorArgsJSON) : CallAddEdge(e)
    \/ \E b \in BOOLEAN : CallExportJSON(b)
    \/ CallRoundTrip

SpecJSON == InitJSON /\ [][NextJSON]_vars

\* Calls on one standalone Edge.
SetEdge(e) ==
    /\ edge' = e
    /\ UNCHANGED <<sourceKind, nodes, edges, callerVars>>

EdgeStartArgs == {"", "a", "b"}
EdgeEndArgs == {"", "a"}
EdgeKindArgs == {"", "K1", "K2"}
PropertyValueArgs == {GoInt("1"), GoString("x")}

InitEdge ==
    /\ sourceKind = ""
    /\ nodes = NewOpenGraph(sourceKind).nodes
    /\ edges = NewOpenGraph(sourceKind).edges
    /\ edge = NilEdge
    /\ InitCallerVars
    /\ ret = [op |-> "NewOpenGraph", arg |-> sourceKind, ok |-> TRUE, out |-> <<>>]

\* e, err := edge.NewEdge(...): e is nil when err is not.
CallNewEdge(startNodeID, endNodeID, kind, p) ==
    LET r == NewEdge(startNodeID, endNodeID, kind, p)
    IN  /\ SetEdge(IF r.ok THEN EdgePtr(r.edge) ELSE NilEdge)
        /\ ret' = [op |-> "NewEdge", arg |-> <<startNodeID, endNodeID, kind>>,
                   ok |-> r.ok, out |-> IF r.ok THEN "" ELSE r.err]

\* ok: the call returned (did not panic).
CallEdgeSetProperty(key, value) ==
    /\ ~edge.isNil
    /\ LET r == SetProperty(edge.obj.properties, key, value)
       IN  /\ SetEdge(EdgePtr([edge.obj EXCEPT !.properties = r.p]))
           /\ ret' = [op |-> "Edge.SetProperty", arg |-> <<key, value>>,
                      ok |-> ~r.panic, out |-> <<>>]

\* out: whether the key was there.
CallEdgeRemoveProperty(key) ==
    /\ ~edge.isNil
    /\ SetEdge(EdgePtr([edge.obj EXCEPT !.properties = RemoveProperty(@, key)]))
    /\ ret' = [op |-> "Edge.RemoveProperty", arg |-> key, ok |-> TRUE,
               out |-> key \in DOMAIN edge.obj.properties]

\* arg: the call made just before (ToDict takes no argument); out: the map.
CallEdgeToDict ==
    /\ ~edge.isNil
    /\ ret' = [op |-> "Edge.ToDict", arg |-> [op |-> ret.op, out |-> ret.out],
               ok |-> TRUE, out |-> EdgeToDict(edge.obj)]
    /\ UNCHANGED <<sourceKind, nodes, edges, edge, callerVars>>

NextEdge ==
    \/ \E s \in EdgeStartArgs, t \in EdgeEndArgs, k \in EdgeKindArgs,
          p \in PropertiesArgs : CallNewEdge(s, t, k, p)
    \/ \E key \in PropKeys, value \in PropertyValueArgs : CallEdgeSetProperty(key, value)
    \/ \E key \in PropKeys : CallEdgeRemoveProperty(key)
    \/ CallEdgeToDict

SpecEdge == InitEdge /\ [][NextEdge]_vars

\* Path queries on graphs built by AddNode and AddEdge.
MaxPathEdges == 3
PathIds == {"a", "b", "c"}
DepthArgs == -1..3

InitPaths ==
    /\ sourceKind = ""
    /\ nodes = NewOpenGraph(sourceKind).nodes
    /\ edges = NewOpenGraph(sourceKind).edges
    /\ edge = NilEdge
    /\ InitCallerVars
    /\ ret = [op |-> "NewOpenGraph", arg |-> sourceKind, ok |-> TRUE, out |-> <<>>]

CallAddPathEdge(e) ==
    LET r == AddEdge(G, e)
    IN  /\ Len(r.g.edges) <= MaxPathEdges
        /\ SetG(r.g)
        /\ ret' = [op |-> "AddEdge", arg |-> e, ok |-> r.ok, out |-> <<>>]
        /\ UNCHANGED <<edge, callerVars>>

CallFindPaths(startID, endID, maxDepth) ==
    /\ ret' = [op |-> "FindPaths", arg |-> <<startID, endID, maxDepth>>, ok |-> TRUE,
               out |-> FindPaths(G, startID, endID, maxDepth)]
    /\ UNCHANGED <<sourceKind, nodes, edges, edge, callerVars>>

NextPaths ==
    \/ \E id \in PathIds : CallAddNode(NewNode(id, NilSlice, NilProperties).node)
    \/ \E s \in PathIds, t \in PathIds : CallAddPathEdge(NewEdge(s, t, "K1", NilProperties).edge)
    \/ \E s \in PathIds, t \in PathIds, d \in DepthArgs : CallFindPaths(s, t, d)

SpecPaths == InitPaths /\ [][NextPaths]_vars

\* Connected components of graphs built by the validated mutators.
MaxCompEdges == 2
CompIds == {"a", "b", "c", "d"}
\* The (start, end) of the edges: every pair of two ids, and one self-loop.
CompEdgeEnds == {st \in CompIds \X CompIds : st[1] # st[2] \/ st[1] = "a"}

InitComponents ==
    /\ sourceKind = ""
    /\ nodes = NewOpenGraph(sourceKind).nodes
    /\ edges = NewOpenGraph(sourceKind).edges
    /\ edge = NilEdge
    /\ InitCallerVars
    /\ ret = [op |-> "NewOpenGraph", arg |-> sourceKind, ok |-> TRUE, out |-> <<>>]

CallAddCompEdge(e) ==
    LET r == AddEdge(G, e)
    IN  /\ Len(r.g.edges) <= MaxCompEdges
        /\ SetG(r.g)
        /\ ret' = [op |-> "AddEdge", arg |-> e, ok |-> r.ok, out |-> <<>>]
        /\ UNCHANGED <<edge, callerVars>>

\* arg: the order range took.
CallGetConnectedComponents ==
    \E order \in RangeOrders(nodes) :
        /\ ret' = [op |-> "GetConnectedComponents", arg |-> order, ok |-> TRUE,
                   out |-> GetConnectedComponents(G, order)]
        /\ UNCHANGED <<sourceKind, nodes, edges, edge, callerVars>>

NextComponents ==
    \/ \E id \in CompIds : CallAddNode(NewNode(id, NilSlice, NilProperties).node)
    \/ \E st \in CompEdgeEnds :
          CallAddCompEdge(NewEdge(st[1], st[2], "K1", NilProperties).edge)
    \/ \E id \in CompIds : CallRemoveNodeByID(id)
    \/ CallClear
    \/ CallGetConnectedComponents

SpecComponents == InitComponents /\ [][NextComponents]_vars

\* ValidateGraph on graphs whose edges were added without validation.
MaxValidateEdges == 2
ValidateIds == {"a", "b", "c"}

InitValidate ==
    /\ sourceKind = ""
    /\ nodes = NewOpenGraph(sourceKind).nodes
    /\ edges = NewOpenGraph(sourceKind).edges
    /\ edge = NilEdge
    /\ InitCallerVars
    /\ ret = [op |-> "NewOpenGraph", arg |-> sourceKind, ok |-> TRUE, out |-> <<>>]

CallAddEdgeWithoutValidation(e) ==
    LET r == AddEdgeWithoutValidation(G, e)
    IN  /\ Len(r.g.edges) <= MaxValidateEdges
        /\ SetG(r.g)
        /\ ret' = [op |-> "AddEdgeWithoutValidation", arg |-> e, ok |-> r.ok, out |-> <<>>]
        /\ UNCHANGED <<edge, callerVars>>

\* arg: the order range took.
CallValidateGraph ==
    \E order \in RangeOrders(nodes) :
        /\ ret' = [op |-> "ValidateGraph", arg |-> order, ok |-> TRUE,
                   out |-> ValidateGraph(G, order)]
        /\ UNCHANGED <<sourceKind, nodes, edges, edge, callerVars>>

NextValidate ==
    \/ \E id \in ValidateIds : CallAddNode(NewNode(id, NilSlice, NilProperties).node)
    \/ \E s \in ValidateIds, t \in ValidateIds, k \in {"K1", "K2"} :
          CallAddEdgeWithoutValidation(NewEdge(s, t, k, NilProperties).edge)
    \/ \E id \in ValidateIds : CallRemoveNodeByID(id)
    \/ CallValidateGraph

SpecValidate == InitValidate /\ [][NextValidate]_vars

\* Every public mutator of the graph, and the kinds of the nodes it holds
\* (reached through GetNode), on a graph made with a source kind.
MaxPublicEdges == 2
PublicIds == {"a", "b"}
PublicKinds == {"A", "Base"}
\* The kinds arguments of NewNode: nil, one label, a label twice.
PublicKindsArgs ==
    {NilSlice,
     SliceAppend(MakeSlice, "A"),
     SliceAppend(SliceAppend(MakeSlice, "A"), "A")}

InitPublic ==
    /\ sourceKind = "Base"
    /\ nodes = NewOpenGraph(sourceKind).nodes
    /\ edges = NewOpenGraph(sourceKind).edges
    /\ edge = NilEdge
    /\ InitCallerVars
    /\ ret = [op |-> "NewOpenGraph", arg |-> sourceKind, ok |-> TRUE, out |-> <<>>]

CallAddNodeWithoutValidation(n) ==
    LET r == AddNodeWithoutValidation(G, n)
    IN  /\ SetG(r.g)
        /\ ret' = [op |-> "AddNodeWithoutValidation", arg |-> n, ok |-> r.ok, out |-> r.node]
        /\ UNCHANGED <<edge, callerVars>>

CallAddPublicEdge(e) ==
    LET r == AddEdge(G, e)
    IN  /\ Len(r.g.edges) <= MaxPublicEdges
        /\ SetG(r.g)
        /\ ret' = [op |-> "AddEdge", arg |-> e, ok |-> r.ok, out |-> <<>>]
        /\ UNCHANGED <<edge, callerVars>>

CallAddPublicEdgeWithoutValidation(e) ==
    LET r == AddEdgeWithoutValidation(G, e)
    IN  /\ Len(r.g.edges) <= MaxPublicEdges
        /\ SetG(r.g)
        /\ ret' = [op |-> "AddEdgeWithoutValidation", arg |-> e, ok |-> r.ok, out |-> <<>>]
        /\ UNCHANGED <<edge, callerVars>>

\* out: the pointer returned.
CallGetNode(id) ==
    /\ ret' = [op |-> "GetNode", arg |-> id, ok |-> TRUE, out |-> GetNode(G, id)]
    /\ UNCHANGED <<sourceKind, nodes, edges, edge, callerVars>>

\* g.GetNode(id).AddKind(kind), on a node the graph holds.
\* out: the kinds before the call.
CallNodeAddKind(id, kind) ==
    /\ ~GetNode(G, id).isNil
    /\ nodes' = [nodes EXCEPT ![id] = AddKind(@, kind)]
    /\ ret' = [op |-> "Node.AddKind", arg |-> <<id, kind>>, ok |-> TRUE,
               out |-> nodes[id].kinds]
    /\ UNCHANGED <<sourceKind, edges, edge, callerVars>>

\* g.GetNode(id).RemoveKind(kind), on a node the graph holds.
\* out: the kinds before the call.
CallNodeRemoveKind(id, kind) ==
    /\ ~GetNode(G, id).isNil
    /\ nodes' = [nodes EXCEPT ![id] = RemoveKind(@, kind)]
    /\ ret' = [op |-> "Node.RemoveKind", arg |-> <<id, kind>>, ok |-> TRUE,
               out |-> nodes[id].kinds]
    /\ UNCHANGED <<sourceKind, edges, edge, callerVars>>

NextPublic ==
    \/ \E id \in PublicIds, kinds \in PublicKindsArgs :
          CallAddNode(NewNode(id, kinds, NilProperties).node)
    \/ \E id \in PublicIds, kinds \in PublicKindsArgs :
          CallAddNodeWithoutValidation(NewNode(id, kinds, NilProperties).node)
    \/ \E s \in PublicIds, t \in PublicIds :
          CallAddPublicEdge(NewEdge(s, t, "K1", NilProperties).edge)
    \/ \E s \in PublicIds, t \in PublicIds :
          CallAddPublicEdgeWithoutValidation(NewEdge(s, t, "K1", NilProperties).edge)
    \/ \E id \in PublicIds : CallRemoveNodeByID(id)
    \/ CallClear
    \/ \E id \in PublicIds : CallGetNode(id)
    \/ \E id \in PublicIds, kind \in PublicKinds : CallNodeAddKind(id, kind)
    \/ \E id \in PublicIds, kind \in PublicKinds : CallNodeRemoveKind(id, kind)
    \/ CallGetConnectedComponents

SpecPublic == InitPublic /\ [][NextPublic]_vars

\* Calls on one standalone Properties, and what the caller does with the
\* map GetAllProperties or ToDict gave it.
\* The slices the caller made: s1 := []interface{}{1} and
\* s2 := []interface{}{map[string]int{}}.
SliceArgs == [s1 |-> <<GoInt("1")>>, s2 |-> <<GoOther("map")>>]

PropertiesValueArgs ==
    {GoNil, GoString("x"), GoBool("true"), GoInt("1"), GoFloat64("1.5"),
     GoOther("map"), GoOther("struct"), GoOther("func"), GoOther("chan"),
     GoSlice("s1"), GoSlice("s2")}

\* What the caller writes into the returned map and into the slices in it.
DictValueArgs == {GoInt("2")}

InitProperties ==
    /\ sourceKind = ""
    /\ nodes = NewOpenGraph(sourceKind).nodes
    /\ edges = NewOpenGraph(sourceKind).edges
    /\ edge = NilEdge
    /\ props = NewProperties
    /\ dict = NilDict
    /\ arrays = SliceArgs
    /\ run = Idle
    /\ ret = [op |-> "NewProperties", arg |-> <<>>, ok |-> TRUE, out |-> <<>>]

\* ok: the call returned (did not panic); out: the properties before the call.
CallSetProperty(key, value) ==
    LET r == SetProperty(props, key, value)
    IN  /\ props' = r.p
        /\ ret' = [op |-> "Properties.SetProperty", arg |-> <<key, value>>,
                   ok |-> ~r.panic, out |-> props]
        /\ UNCHANGED <<sourceKind, nodes, edges, edge, dict, arrays, run>>

CallRemoveProperty(key) ==
    /\ props' = RemoveProperty(props, key)
    /\ ret' = [op |-> "Properties.RemoveProperty", arg |-> <<key>>, ok |-> TRUE, out |-> <<>>]
    /\ UNCHANGED <<sourceKind, nodes, edges, edge, dict, arrays, run>>

CallPropertiesClear ==
    /\ props' = PropertiesClear(props)
    /\ ret' = [op |-> "Properties.Clear", arg |-> <<>>, ok |-> TRUE, out |-> <<>>]
    /\ UNCHANGED <<sourceKind, nodes, edges, edge, dict, arrays, run>>

\* dict := p.GetAllProperties()
CallGetAllProperties ==
    /\ dict' = [isNil |-> FALSE, m |-> GetAllProperties(props)]
    /\ ret' = [op |-> "Properties.GetAllProperties", arg |-> <<>>, ok |-> TRUE, out |-> <<>>]
    /\ UNCHANGED <<sourceKind, nodes, edges, edge, props, arrays, run>>

\* dict := p.ToDict()
CallPropertiesToDict ==
    /\ dict' = [isNil |-> FALSE, m |-> PropertiesToDict(props)]
    /\ ret' = [op |-> "Properties.ToDict", arg |-> <<>>, ok |-> TRUE, out |-> <<>>]
    /\ UNCHANGED <<sourceKind, nodes, edges, edge, props, arrays, run>>

\* dict[key] = value, by the caller.
DictSet(key, value) ==
    /\ ~dict.isNil
    /\ dict' = [dict EXCEPT !.m = [k \in DOMAIN @ \cup {key} |->
                                      IF k = key THEN value ELSE @[k]]]
    /\ ret' = [op |-> "dict[key] = value", arg |-> <<key, value>>, ok |-> TRUE, out |-> <<>>]
    /\ UNCHANGED <<sourceKind, nodes, edges, edge, props, arrays, run>>

\* delete(dict, key), by the caller.
DictDelete(key) ==
    /\ ~dict.isNil
    /\ dict' = [dict EXCEPT !.m = [k \in DOMAIN @ \ {key} |-> @[k]]]
    /\ ret' = [op |-> "delete(dict, key)", arg |-> <<key>>, ok |-> TRUE, out |-> <<>>]
    /\ UNCHANGED <<sourceKind, nodes, edges, edge, props, arrays, run>>

\* dict[key].([]interface{})[0] = value, by the caller: the element is
\* written into the backing array of the slice.
DictSetElem(key, value) ==
    /\ ~dict.isNil
    /\ key \in DOMAIN dict.m
    /\ dict.m[key].t = "slice"
    /\ arrays' = [arrays EXCEPT ![dict.m[key].v][1] = value]
    /\ ret' = [op |-> "dict[key][0] = value", arg |-> <<key, value>>, ok |-> TRUE,
               out |-> <<>>]
    /\ UNCHANGED <<sourceKind, nodes, edges, edge, props, dict, run>>

NextProperties ==
    \/ \E value \in PropertiesValueArgs : CallSetProperty("w", value)
    \/ \E key \in PropKeys : CallRemoveProperty(key)
    \/ CallPropertiesClear
    \/ CallGetAllProperties
    \/ CallPropertiesToDict
    \/ \E key \in PropKeys, value \in DictValueArgs : DictSet(key, value)
    \/ \E key \in PropKeys : DictDelete(key)
    \/ \E key \in PropKeys, value \in DictValueArgs : DictSetElem(key, value)

SpecProperties == InitProperties /\ [][NextProperties]_vars

\* The queries, on graphs built by AddNode and AddEdge.
\* arg: the kind and the order range took; out: the nodes.
CallGetNodesByKind(kind) ==
    \E order \in RangeOrders(nodes) :
        /\ ret' = [op |-> "GetNodesByKind", arg |-> <<kind, order>>, ok |-> TRUE,
                   out |-> GetNodesByKind(G, kind, order)]
        /\ UNCHANGED <<sourceKind, nodes, edges, edge, callerVars>>

CallGetEdgesByKind(kind) ==
    /\ ret' = [op |-> "GetEdgesByKind", arg |-> kind, ok |-> TRUE,
               out |-> GetEdgesByKind(G, kind)]
    /\ UNCHANGED <<sourceKind, nodes, edges, edge, callerVars>>

CallGetEdgesFromNode(id) ==
    /\ ret' = [op |-> "GetEdgesFromNode", arg |-> id, ok |-> TRUE,
               out |-> GetEdgesFromNode(G, id)]
    /\ UNCHANGED <<sourceKind, nodes, edges, edge, callerVars>>

CallGetEdgesToNode(id) ==
    /\ ret' = [op |-> "GetEdgesToNode", arg |-> id, ok |-> TRUE,
               out |-> GetEdgesToNode(G, id)]
    /\ UNCHANGED <<sourceKind, nodes, edges, edge, callerVars>>

NextQueries ==
    \/ \E n \in NodeArgs(Ids, NodeCtorArgs) : CallAddNode(n)
    \/ \E s \in Ids, t \in Ids, kind \in {"K1", "K2"} :
          CallAddEdge(NewEdge(s, t, kind, NilProperties).edge)
    \/ \E id \in Ids : CallGetNode(id)
    \/ \E kind \in {"P", "Base"} : CallGetNodesByKind(kind)
    \/ \E kind \in {"K1", "K2"} : CallGetEdgesByKind(kind)
    \/ \E id \in Ids : CallGetEdgesFromNode(id)
    \/ \E id \in Ids : CallGetEdgesToNode(id)
    \/ \E s \in Ids, t \in Ids, d \in 0..2 : CallFindPaths(s, t, d)
    \/ CallGetConnectedComponents
    \/ CallValidateGraph
    \/ CallExportJSON(TRUE)

SpecQueries == Init /\ [][NextQueries]_vars

\* FindPaths and GetConnectedComponents turn by turn of their loops, on
\* graphs built by AddNode, AddEdge and AddEdgeWithoutValidation.  The graph
\* is written only while no call is in progress and no result is held.
\* The edges AddEdge is called with: two kinds from a to b, the way back,
\* an edge on to c, and a self-loop.
SearchEdgeArgs ==
    {NewEdge(st[1], st[2], st[3], NilProperties).edge :
        st \in {<<"a", "b", "K1">>, <<"a", "b", "K2">>, <<"b", "a", "K1">>,
                <<"b", "c", "K1">>, <<"b", "b", "K1">>}}

\* A call made turn by turn leaves its result in run: the finished FindPaths
\* or GetConnectedComponents call.
FindPathsResult(startID, endID, maxDepth, paths) ==
    [pc |-> "idle", startID |-> startID, endID |-> endID, maxDepth |-> maxDepth,
     paths |-> paths]

ComponentsResult(order, components) ==
    [pc |-> "idle", order |-> order, components |-> components]

\* paths := g.FindPaths(startID, endID, maxDepth), up to the loop.
\* The call returns at once when an id is unknown or start is the end.
\* enqueued: the ids put on the queue so far, in order.
BeginFindPaths(startID, endID, maxDepth) ==
    /\ run.pc = "idle"
    /\ run' = IF startID \notin DOMAIN nodes \/ endID \notin DOMAIN nodes
                 \/ startID = endID
              THEN FindPathsResult(startID, endID, maxDepth,
                                   FindPaths(G, startID, endID, maxDepth))
              ELSE [pc |-> "FindPaths", arg |-> <<startID, endID, maxDepth>>,
                    queue |-> <<[id |-> startID, path |-> <<startID>>]>>,
                    visited |-> {startID},
                    paths |-> NilSlice,
                    enqueued |-> <<startID>>]
    /\ ret' = [op |-> "call", arg |-> <<>>, ok |-> TRUE, out |-> <<>>]
    /\ UNCHANGED <<sourceKind, nodes, edges, edge, props, dict, arrays>>

\* One test of the loop condition: a turn of the loop, or the return.
StepFindPaths ==
    /\ run.pc = "FindPaths"
    /\ run' = IF Len(run.queue) > 0 /\ WithinDepth(run.queue[1].path, run.arg[3])
              THEN LET current == Head(run.queue)
                       st == FindPathsExpand(NextIDs(G, current.id), 1, current,
                                             run.arg[2],
                                             [queue |-> Tail(run.queue),
                                              visited |-> run.visited,
                                              paths |-> run.paths])
                       added == SubSeq(st.queue, Len(run.queue), Len(st.queue))
                   IN  [run EXCEPT !.queue = st.queue,
                                   !.visited = st.visited,
                                   !.paths = st.paths,
                                   !.enqueued = @ \o [i \in 1..Len(added) |-> added[i].id]]
              ELSE FindPathsResult(run.arg[1], run.arg[2], run.arg[3], run.paths)
    /\ UNCHANGED <<sourceKind, nodes, edges, edge, props, dict, arrays, ret>>

\* components := g.GetConnectedComponents(), up to the loop over the nodes.
\* order: the order range takes; i: the position of the loop in it.
BeginComponents ==
    \E order \in RangeOrders(nodes) :
        /\ run.pc = "idle"
        /\ run' = [pc |-> "GetConnectedComponents", order |-> order, i |-> 1,
                   stack |-> <<>>, visited |-> {}, component |-> {},
                   components |-> NilSlice]
        /\ ret' = [op |-> "call", arg |-> <<>>, ok |-> TRUE, out |-> <<>>]
        /\ UNCHANGED <<sourceKind, nodes, edges, edge, props, dict, arrays>>

\* One turn of the loop over the stack (the component is appended when the
\* turn empties the stack), or one turn of the loop over the nodes, or the return.
StepComponents ==
    /\ run.pc = "GetConnectedComponents"
    /\ run' = IF Len(run.stack) > 0
              THEN LET st == ComponentStep(G, [stack |-> run.stack,
                                               visited |-> run.visited,
                                               component |-> run.component])
                   IN  IF Len(st.stack) > 0
                       THEN [run EXCEPT !.stack = st.stack,
                                        !.visited = st.visited,
                                        !.component = st.component]
                       ELSE [run EXCEPT !.stack = <<>>,
                                        !.visited = st.visited,
                                        !.component = {},
                                        !.components = SliceAppend(@, st.component),
                                        !.i = @ + 1]
              ELSE IF run.i > Len(run.order)
              THEN ComponentsResult(run.order, run.components)
              ELSE IF run.order[run.i] \in run.visited
              THEN [run EXCEPT !.i = @ + 1]
              ELSE [run EXCEPT !.stack = <<run.order[run.i]>>]
    /\ UNCHANGED <<sourceKind, nodes, edges, edge, props, dict, arrays, ret>>

\* The caller lets go of the result of the last call.
DropResult ==
    /\ run.pc = "idle"
    /\ run # Idle
    /\ run' = Idle
    /\ UNCHANGED <<sourceKind, nodes, edges, edge, props, dict, arrays, ret>>

NextSearch ==
    \/ \E id \in PathIds :
          run = Idle /\ CallAddNode(NewNode(id, NilSlice, NilProperties).node)
    \/ \E e \in SearchEdgeArgs : run = Idle /\ CallAddPathEdge(e)
    \/ run = Idle
          /\ CallAddEdgeWithoutValidation(NewEdge("a", "x", "K1", NilProperties).edge)
    \/ \E t \in PathIds, d \in {-1, 0, 2, 4} : BeginFindPaths("a", t, d)
    \/ StepFindPaths
    \/ BeginComponents
    \/ StepComponents
    \/ DropResult

SpecSearch == InitPaths /\ [][NextSearch]_vars

\* A call in progress goes on: the program does nothing else meanwhile.
SpecSearchFair == SpecSearch /\ WF_vars(StepFindPaths) /\ WF_vars(StepComponents)

\* ---------------------------------------------------------------- claims

Triple(e) == <<e.startNodeID, e.endNodeID, e.kind>>

IsEdgeOf(e, id) == e.startNodeID = id \/ e.endNodeID = id

Among(x, seq) == \E i \in 1..Len(seq) : seq[i] = x

\* sub is full restricted to the positions keep, in the same order.
IsSelection(sub, full, keep) ==
    /\ Len(sub) = Cardinality(keep)
    /\ \E f \in [1..Len(sub) -> keep] :
          /\ \A k, l \in 1..Len(sub) : k < l => f[k] < f[l]
          /\ \A k \in 1..Len(sub) : sub[k] = full[f[k]]

\* C1: in every state reached by AddNode, AddEdge, RemoveNodeByID and Clear,
\* both the start and the end id of every edge of the list are keys of the
\* node map.
C1_NoDanglingEdge ==
    \A i \in 1..Len(edges) :
        /\ edges[i].startNodeID \in DOMAIN nodes
        /\ edges[i].endNodeID \in DOMAIN nodes

\* A node was removed together with two edges, one leaving it and one
\* entering it, and another node is still there.
C1_Witness ==
    /\ ret.op = "RemoveNodeByID"
    /\ ret.ok
    /\ ret.out = 2
    /\ DOMAIN nodes # {}

\* C2: in every state reached by AddNode, AddEdge, RemoveNodeByID and Clear,
\* no two positions of the edge list hold the same (start, end, kind).
C2_NoDuplicateEdge ==
    \A i, k \in 1..Len(edges) : Triple(edges[i]) = Triple(edges[k]) => i = k

\* The list holds an edge, and AddEdge has just refused the same triple
\* carrying other properties.
C2_Witness ==
    /\ ret.op = "AddEdge"
    /\ ~ret.ok
    /\ \E i \in 1..Len(edges) :
          /\ Triple(edges[i]) = Triple(ret.arg)
          /\ edges[i].properties # ret.arg.properties

\* C3: AddEdge(e) returns true exactly when both ids of e are in the node map
\* and no edge of the list has e's (start, end, kind), whatever the
\* properties; on false, node map, edge list and sourceKind are as before;
\* on true, e is appended as the last edge and the earlier edges stay.
C3_AddEdge ==
    [][ret'.op = "AddEdge" =>
         LET e == ret'.arg
         IN  /\ ret'.ok <=>
                  /\ e.startNodeID \in DOMAIN nodes
                  /\ e.endNodeID \in DOMAIN nodes
                  /\ ~\E i \in 1..Len(edges) : Triple(edges[i]) = Triple(e)
             /\ ~ret'.ok => UNCHANGED <<nodes, edges, sourceKind>>
             /\ ret'.ok =>
                  /\ edges' = Append(edges, e)
                  /\ UNCHANGED <<nodes, sourceKind>>]_vars

\* AddEdge has appended an edge with properties behind an edge of the same
\* start and end and another kind.
C3_Witness ==
    /\ ret.op = "AddEdge"
    /\ ret.ok
    /\ Len(edges) = 2
    /\ edges[2] = ret.arg
    /\ DOMAIN ret.arg.properties # {}
    /\ edges[1].startNodeID = edges[2].startNodeID
    /\ edges[1].endNodeID = edges[2].endNodeID

\* C4: AddNode(n) with n's id already in the graph returns false; the node
\* stored under the id, the node count, the edge list and sourceKind are as
\* before, and n itself is as before (it is not given the sourceKind).
C4_AddNodeDuplicate ==
    [][(ret'.op = "AddNode" /\ ret'.arg.id \in DOMAIN nodes) =>
         /\ ~ret'.ok
         /\ UNCHANGED <<nodes, edges, sourceKind>>
         /\ ret'.out = ret'.arg]_vars

\* AddNode has refused a node that lacks the sourceKind and differs in kinds
\* and properties from the node stored under its id, which has an edge.
C4_Witness ==
    /\ ret.op = "AddNode"
    /\ ~ret.ok
    /\ sourceKind # ""
    /\ ~Among(sourceKind, ret.out.kinds)
    /\ nodes[ret.arg.id].kinds # ret.arg.kinds
    /\ nodes[ret.arg.id].properties # ret.arg.properties
    /\ \E i \in 1..Len(edges) : IsEdgeOf(edges[i], ret.arg.id)

\* C5: AddNode(n) with an id not in the graph returns true and stores n under
\* its id; a non-empty sourceKind that n does not carry is appended as n's
\* last kind, the other kinds keeping their order; otherwise n's kinds are
\* unchanged.  Nothing else changes.
C5_AddNodeNew ==
    [][(ret'.op = "AddNode" /\ ret'.arg.id \notin DOMAIN nodes) =>
         LET n == ret'.arg
         IN  /\ ret'.ok
             /\ DOMAIN nodes' = DOMAIN nodes \cup {n.id}
             /\ \A id \in DOMAIN nodes : nodes'[id] = nodes[id]
             /\ nodes'[n.id] = ret'.out
             /\ UNCHANGED <<edges, sourceKind>>
             /\ ret'.out.id = n.id
             /\ ret'.out.properties = n.properties
             /\ ret'.out.kinds = IF sourceKind # "" /\ ~Among(sourceKind, n.kinds)
                                 THEN Append(n.kinds, sourceKind)
                                 ELSE n.kinds]_vars

\* AddNode has stored a node that had a kind and got the sourceKind behind it.
C5_Witness ==
    /\ ret.op = "AddNode"
    /\ ret.ok
    /\ sourceKind # ""
    /\ Len(ret.arg.kinds) >= 1
    /\ nodes[ret.arg.id].kinds = Append(ret.arg.kinds, sourceKind)

\* C6: RemoveNodeByID(id) returns true exactly when id is in the graph; then
\* exactly that node is removed and exactly the edges that start or end at id,
\* the other edges keeping their order; on false nothing changes.
C6_RemoveNodeByID ==
    [][ret'.op = "RemoveNodeByID" =>
         LET id == ret'.arg
         IN  /\ ret'.ok <=> id \in DOMAIN nodes
             /\ ~ret'.ok => UNCHANGED <<nodes, edges, sourceKind>>
             /\ ret'.ok =>
                  /\ DOMAIN nodes' = DOMAIN nodes \ {id}
                  /\ \A i \in DOMAIN nodes' : nodes'[i] = nodes[i]
                  /\ IsSelection(edges', edges,
                                 {i \in 1..Len(edges) : ~IsEdgeOf(edges[i], id)})
                  /\ UNCHANGED sourceKind]_vars

\* A removal has pruned one edge and kept the other one.
C6_Witness ==
    /\ ret.op = "RemoveNodeByID"
    /\ ret.ok
    /\ ret.out = 1
    /\ Len(edges) = 1

IsValidUTF8(str) == str # BadUTF8

\* C7: for a graph built by AddNode and AddEdge with a non-empty sourceKind,
\* importing the document of ExportJSON(true) into NewOpenGraph("") gives a
\* graph with the same node count, edge count and sourceKind, the same node
\* ids with the same kinds, and the same (start, end, kind) triples.
C7_RoundTrip ==
    (ret.op = "FromJSON" /\ sourceKind # "") =>
        LET h == ret.out
        IN  /\ Cardinality(DOMAIN h.nodes) = Cardinality(DOMAIN nodes)
            /\ Len(h.edges) = Len(edges)
            /\ h.sourceKind = sourceKind
            /\ DOMAIN h.nodes = DOMAIN nodes
            /\ \A id \in DOMAIN nodes : h.nodes[id].kinds = nodes[id].kinds
            /\ {Triple(h.edges[i]) : i \in 1..Len(h.edges)}
                 = {Triple(edges[i]) : i \in 1..Len(edges)}

\* The same law for the graphs all of whose strings are valid UTF-8 (holds).
RoundTripOfValidUTF8 ==
    (/\ ret.op = "FromJSON"
     /\ sourceKind # ""
     /\ IsValidUTF8(sourceKind)
     /\ \A id \in DOMAIN nodes : IsValidUTF8(id)) =>
        LET h == ret.out
        IN  /\ Len(h.edges) = Len(edges)
            /\ h.sourceKind = sourceKind
            /\ DOMAIN h.nodes = DOMAIN nodes
            /\ \A id \in DOMAIN nodes : h.nodes[id].kinds = nodes[id].kinds
            /\ \A i \in 1..Len(edges) : Triple(h.edges[i]) = Triple(edges[i])

HasMetadata(doc) == "metadata" \in DOMAIN doc.v

\* C8: the document of ExportJSON(includeMetadata) has a metadata entry
\* exactly when includeMetadata is true and sourceKind is not empty, and its
\* source_kind is then the graph's sourceKind.
C8_Metadata ==
    (ret.op = "ExportJSON" /\ ret.ok) =>
        /\ HasMetadata(ret.out) <=> (ret.arg /\ sourceKind # "")
        /\ HasMetadata(ret.out) => ret.out.v.metadata.v.source_kind.v = sourceKind

\* What the export does write: the entry is there exactly when
\* includeMetadata is true and sourceKind is not empty; its source_kind is a
\* JSON string, equal to sourceKind when that is valid UTF-8 and holding
\* U+FFFD for the bytes that are not (holds).
MetadataAsWritten ==
    (ret.op = "ExportJSON" /\ ret.ok) =>
        /\ HasMetadata(ret.out) <=> (ret.arg /\ sourceKind # "")
        /\ HasMetadata(ret.out) =>
             LET sk == ret.out.v.metadata.v.source_kind
             IN  /\ sk.j = "string"
                 /\ IsValidUTF8(sourceKind) => sk.v = sourceKind
                 /\ ~IsValidUTF8(sourceKind) => sk.v = ReplacementRune

\* C9: the document of ExportJSON has graph.nodes and graph.edges as arrays
\* (never null), one node record for each node of the graph and one edge
\* record for each edge of the list, the edge records in the list's order.
C9_Arrays ==
    (ret.op = "ExportJSON" /\ ret.ok) =>
        LET content == ret.out.v.graph.v
        IN  /\ DOMAIN content = {"nodes", "edges"}
            /\ content.nodes.j = "array"
            /\ content.edges.j = "array"
            /\ Len(content.nodes.v) = Cardinality(DOMAIN nodes)
            /\ \A id \in DOMAIN nodes :
                  \E i \in 1..Len(content.nodes.v) : content.nodes.v[i].v.id.v = id
            /\ Len(content.edges.v) = Len(edges)
            /\ \A i \in 1..Len(edges) :
                  LET o == content.edges.v[i].v
                  IN  <<o.start.v.value.v, o.end.v.value.v, o.kind.v>> = Triple(edges[i])

\* The empty graph was exported: both arrays are there and empty.
C9_Witness ==
    /\ ret.op = "ExportJSON"
    /\ ret.ok
    /\ DOMAIN nodes = {}
    /\ ret.out.v.graph.v.nodes = JArray(<<>>)
    /\ ret.out.v.graph.v.edges = JArray(<<>>)

\* C10: the map of Edge.ToDict has a properties entry exactly when the edge
\* has a property, the entry then has the keys and values of the edge's
\* properties; kind, start.value and end.value are the edge's, and both
\* match_by are "id".
C10_EdgeToDict ==
    ret.op = "Edge.ToDict" =>
        LET d == ret.out
            e == edge.obj
        IN  /\ ("properties" \in DOMAIN d) <=> (DOMAIN e.properties # {})
            /\ "properties" \in DOMAIN d =>
                  /\ DOMAIN d.properties = DOMAIN e.properties
                  /\ \A k \in DOMAIN e.properties : d.properties[k] = e.properties[k]
            /\ d.kind = e.kind
            /\ d.start.value = e.startNodeID
            /\ d.end.value = e.endNodeID
            /\ d.start.match_by = "id"
            /\ d.end.match_by = "id"

\* ToDict right after the removal of the edge's last property: no entry.
C10_Witness ==
    /\ ret.op = "Edge.ToDict"
    /\ ret.arg.op = "Edge.RemoveProperty"
    /\ ret.arg.out
    /\ DOMAIN edge.obj.properties = {}
    /\ "properties" \notin DOMAIN ret.out

\* ------------------------------------------------------------ FindPaths

\* The graph has an edge from u to v.
EdgeFromTo(u, v) ==
    \E i \in 1..Len(edges) : edges[i].startNodeID = u /\ edges[i].endNodeID = v

\* The ids that at most k edges, followed in their direction, lead to from s.
RECURSIVE ReachWithin(_, _)
ReachWithin(s, k) ==
    IF k <= 0 THEN {s}
    ELSE LET R == ReachWithin(s, k - 1)
         IN  R \cup {edges[i].endNodeID :
                       i \in {j \in 1..Len(edges) : edges[j].startNodeID \in R}}

Reachable(s, e) == e \in ReachWithin(s, Len(edges))

\* The least number of edges of a directed path from s to e (for e reachable).
MinEdges(s, e) ==
    CHOOSE k \in 0..Len(edges) :
        /\ e \in ReachWithin(s, k)
        /\ \A m \in 0..(k - 1) : e \notin ReachWithin(s, m)

\* The last call was FindPaths(s, e, d) on two nodes of the graph, s # e.
IsSearch ==
    /\ ret.op = "FindPaths"
    /\ ret.arg[1] # ret.arg[2]
    /\ ret.arg[1] \in DOMAIN nodes
    /\ ret.arg[2] \in DOMAIN nodes

\* C11: every path FindPaths(s, e, maxDepth) returns for s # e begins with s,
\* ends with e, and each of its steps u, v is an edge of the graph from u to v.
C11_PathsFollowEdges ==
    (ret.op = "FindPaths" /\ ret.arg[1] # ret.arg[2]) =>
        \A n \in 1..Len(ret.out.elems) :
            LET path == ret.out.elems[n]
            IN  /\ Len(path) >= 2
                /\ path[1] = ret.arg[1]
                /\ path[Len(path)] = ret.arg[2]
                /\ \A i \in 1..(Len(path) - 1) : EdgeFromTo(path[i], path[i + 1])

\* A path of two edges was returned while the only edge between its two ends
\* runs from the end to the start.
C11_Witness ==
    /\ IsSearch
    /\ Len(ret.out.elems) = 1
    /\ Len(ret.out.elems[1]) = 3
    /\ EdgeFromTo(ret.arg[2], ret.arg[1])
    /\ ~EdgeFromTo(ret.arg[1], ret.arg[2])

\* C12: every path FindPaths(s, e, maxDepth) returns for s # e has at most
\* maxDepth edges, and when the shortest path has exactly maxDepth edges a
\* path of maxDepth edges is returned; on nodes a, b, c with the edges a->b
\* and b->c, FindPaths(a, c, 2) returns the one path [a, b, c] and
\* FindPaths(a, c, 1) returns none.
C12_DepthBound ==
    (ret.op = "FindPaths" /\ ret.arg[1] # ret.arg[2]) =>
        LET s == ret.arg[1]
            e == ret.arg[2]
            maxDepth == ret.arg[3]
            paths == ret.out.elems
        IN  /\ \A n \in 1..Len(paths) : Len(paths[n]) - 1 <= maxDepth
            /\ (IsSearch /\ Reachable(s, e) /\ MinEdges(s, e) = maxDepth) =>
                 \E n \in 1..Len(paths) : Len(paths[n]) - 1 = maxDepth
            /\ (/\ DOMAIN nodes = {"a", "b", "c"}
                /\ [i \in 1..Len(edges) |-> Triple(edges[i])]
                     = <<<<"a", "b", "K1">>, <<"b", "c", "K1">>>>
                /\ s = "a" /\ e = "c") =>
                 /\ maxDepth = 2 => paths = <<<<"a", "b", "c">>>>
                 /\ maxDepth = 1 => Len(paths) = 0

\* FindPaths(a, c, 2) on the edges a->b, b->c has returned [a, b, c].
C12_Witness ==
    /\ ret.op = "FindPaths"
    /\ ret.arg = <<"a", "c", 2>>
    /\ Len(edges) = 2
    /\ EdgeFromTo("a", "b")
    /\ EdgeFromTo("b", "c")
    /\ ret.out.elems = <<<<"a", "b", "c">>>>

\* C13: FindPaths(s, e, maxDepth) returns nil when s or e is not a node of
\* the graph, whatever maxDepth and also for s = e; the call returns and
\* leaves the graph as it was.
C13_UnknownEndpoint ==
    [][(/\ ret'.op = "FindPaths"
        /\ \/ ret'.arg[1] \notin DOMAIN nodes
           \/ ret'.arg[2] \notin DOMAIN nodes) =>
         /\ ret'.ok
         /\ ret'.out = NilSlice
         /\ UNCHANGED <<nodes, edges, sourceKind>>]_vars

\* FindPaths(x, x, d) for an x that is not a node, on a graph that has
\* nodes, has returned nil.
C13_Witness ==
    /\ ret.op = "FindPaths"
    /\ ret.arg[1] = ret.arg[2]
    /\ ret.arg[1] \notin DOMAIN nodes
    /\ DOMAIN nodes # {}
    /\ ret.out = NilSlice

\* C14: for a node x and maxDepth k >= 0, FindPaths(x, x, k) returns exactly
\* the one path [x], whatever the edges.
C14_TrivialPath ==
    (/\ ret.op = "FindPaths"
     /\ ret.arg[1] = ret.arg[2]
     /\ ret.arg[1] \in DOMAIN nodes
     /\ ret.arg[3] >= 0) =>
        /\ ~ret.out.isNil
        /\ ret.out.elems = <<<<ret.arg[1]>>>>

\* FindPaths(x, x, 0) has returned [x] for an x with a self-loop and a
\* cycle through another node.
C14_Witness ==
    /\ ret.op = "FindPaths"
    /\ ret.arg[1] = ret.arg[2]
    /\ ret.arg[3] = 0
    /\ EdgeFromTo(ret.arg[1], ret.arg[1])
    /\ \E y \in DOMAIN nodes \ {ret.arg[1]} :
          EdgeFromTo(ret.arg[1], y) /\ EdgeFromTo(y, ret.arg[1])
    /\ ret.out.elems = <<<<ret.arg[1]>>>>

\* C15: when s and e are nodes, s # e, and no path is found within
\* maxDepth, the result of FindPaths is empty and is not nil.
C15_EmptyNotNil ==
    (IsSearch /\ Len(ret.out.elems) = 0) => ~ret.out.isNil

\* C16: every path FindPaths returns has the least number of edges of any
\* directed path from s to e.
C16_ShortestOnly ==
    IsSearch =>
        \A n \in 1..Len(ret.out.elems) :
            Len(ret.out.elems[n]) - 1 = MinEdges(ret.arg[1], ret.arg[2])

\* C16 as amended: the first path FindPaths returns has the least number of
\* edges of any directed path from s to e, and no path of the result is
\* shorter than one before it; later paths may be longer.
C16_ShortestFirst ==
    (IsSearch /\ Len(ret.out.elems) > 0) =>
        LET paths == ret.out.elems
        IN  /\ Len(paths[1]) - 1 = MinEdges(ret.arg[1], ret.arg[2])
            /\ \A i, k \in 1..Len(paths) : i <= k => Len(paths[i]) <= Len(paths[k])

\* FindPaths has returned a path of one edge and then a path of two edges.
C16_Witness ==
    /\ IsSearch
    /\ Len(ret.out.elems) = 2
    /\ Len(ret.out.elems[1]) = 2
    /\ Len(ret.out.elems[2]) = 3

\* ---------------------------------------------- GetConnectedComponents

\* The ids that at most k edges, taken in either direction, lead to from s.
RECURSIVE ChainWithin(_, _)
ChainWithin(s, k) ==
    IF k <= 0 THEN {s}
    ELSE LET R == ChainWithin(s, k - 1)
         IN  R \cup {edges[i].endNodeID :
                       i \in {j \in 1..Len(edges) : edges[j].startNodeID \in R}}
               \cup {edges[i].startNodeID :
                       i \in {j \in 1..Len(edges) : edges[j].endNodeID \in R}}

Joined(u, v) == v \in ChainWithin(u, Len(edges))

\* C17: GetConnectedComponents returns a partition of the node ids: every
\* node is in exactly one component, no component is empty, two nodes share
\* a component exactly when a chain of edges taken in either direction joins
\* them, a node without an edge is alone in its component; nodes a, b, c, d
\* with the edges a->b and c->d give two components of size 2.
C17_Components ==
    ret.op = "GetConnectedComponents" =>
        LET comps == ret.out.elems
        IN  /\ \A id \in DOMAIN nodes :
                  Cardinality({i \in 1..Len(comps) : id \in comps[i]}) = 1
            /\ \A i \in 1..Len(comps) : comps[i] # {} /\ comps[i] \subseteq DOMAIN nodes
            /\ \A u, v \in DOMAIN nodes :
                  (\E i \in 1..Len(comps) : u \in comps[i] /\ v \in comps[i])
                    <=> Joined(u, v)
            /\ \A id \in DOMAIN nodes :
                  (\A i \in 1..Len(edges) : ~IsEdgeOf(edges[i], id)) =>
                      \E i \in 1..Len(comps) : comps[i] = {id}
            /\ (/\ DOMAIN nodes = {"a", "b", "c", "d"}
                /\ {Triple(edges[i]) : i \in 1..Len(edges)}
                     = {<<"a", "b", "K1">>, <<"c", "d", "K1">>}) =>
                 /\ Len(comps) = 2
                 /\ Cardinality(comps[1]) = 2
                 /\ Cardinality(comps[2]) = 2

\* The components of a, b, c, d with the edges a->b and c->d were computed
\* with b visited before a: {a, b} and {c, d}.
C17_Witness ==
    /\ ret.op = "GetConnectedComponents"
    /\ DOMAIN nodes = {"a", "b", "c", "d"}
    /\ Len(edges) = 2
    /\ EdgeFromTo("a", "b")
    /\ EdgeFromTo("c", "d")
    /\ ret.arg[1] = "b"
    /\ {ret.out.elems[i] : i \in 1..Len(ret.out.elems)} = {{"a", "b"}, {"c", "d"}}

\* -------------------------------------------------------- ValidateGraph

\* The endpoints of the edges from the i-th on that are not nodes, start
\* before end, as <<side, kind, id>>.
RECURSIVE DanglingEndpoints(_)
DanglingEndpoints(i) ==
    IF i > Len(edges) THEN <<>>
    ELSE (IF edges[i].startNodeID \in DOMAIN nodes THEN <<>>
          ELSE <<<<"start", edges[i].kind, edges[i].startNodeID>>>>)
         \o (IF edges[i].endNodeID \in DOMAIN nodes THEN <<>>
             ELSE <<<<"end", edges[i].kind, edges[i].endNodeID>>>>)
         \o DanglingEndpoints(i + 1)

\* The nodes that are neither start nor end of an edge.
IsolatedNodes == {id \in DOMAIN nodes : \A i \in 1..Len(edges) : ~IsEdgeOf(edges[i], id)}

\* What a finding says, as <<side, kind, id>> or <<"isolated", count, ids>>.
FindingOf(f) ==
    CASE f.format = "Edge %s references non-existent start node: %s" ->
             <<"start", f.args[1], f.args[2]>>
      [] f.format = "Edge %s references non-existent end node: %s" ->
             <<"end", f.args[1], f.args[2]>>
      [] f.format = "Found %d isolated nodes: %v" ->
             <<"isolated", f.args[1], {f.args[2][i] : i \in 1..Len(f.args[2])}>>

\* The findings are those of the dangling endpoints, in edge order, and then
\* one for the isolated nodes if there are any.
FindingsAreRight ==
    LET found == [i \in 1..Len(ret.out.elems) |-> FindingOf(ret.out.elems[i])]
        dangling == DanglingEndpoints(1)
    IN  /\ found = dangling \o (IF IsolatedNodes = {} THEN <<>>
                                ELSE <<<<"isolated", Cardinality(IsolatedNodes),
                                         IsolatedNodes>>>>)
        /\ Len(found) = 0 <=> (Len(dangling) = 0 /\ IsolatedNodes = {})

\* C18: ValidateGraph returns one finding for each edge endpoint that is not
\* a node (start and end apart, in edge order), then at most one finding
\* that lists exactly the nodes no edge starts or ends at; it returns no
\* finding exactly when there is neither; it returns and leaves the graph
\* as it was.
C18_ValidateGraph ==
    [][ret'.op = "ValidateGraph" =>
         /\ ret'.ok
         /\ FindingsAreRight'
         /\ UNCHANGED <<nodes, edges, sourceKind>>]_vars

\* ValidateGraph has returned three findings: both ends of an edge are not
\* nodes, and the one node has no edge.
C18_Witness ==
    /\ ret.op = "ValidateGraph"
    /\ Len(edges) = 1
    /\ Len(ret.out.elems) = 3
    /\ FindingOf(ret.out.elems[1])[1] = "start"
    /\ FindingOf(ret.out.elems[2])[1] = "end"
    /\ FindingOf(ret.out.elems[3])[1] = "isolated"

\* ---------------------------------------------------------------- Clear

\* C19: after Clear the graph has no node and no edge and its sourceKind is
\* the one it was made with (no call changes it); an AddNode that follows
\* behaves as on a new graph of that sourceKind: it succeeds for any id and
\* gives the node the sourceKind.
C19_Clear ==
    [][/\ sourceKind' = sourceKind
       /\ ret'.op = "Clear" =>
            /\ DOMAIN nodes' = {}
            /\ edges' = <<>>
       /\ (ret.op = "Clear" /\ ret'.op = "AddNode") =>
            LET n == ret'.arg
            IN  /\ ret'.ok
                /\ DOMAIN nodes' = {n.id}
                /\ edges' = <<>>
                /\ nodes'[n.id].id = n.id
                /\ nodes'[n.id].properties = n.properties
                /\ nodes'[n.id].kinds =
                      IF sourceKind # "" /\ ~Among(sourceKind, n.kinds)
                      THEN Append(n.kinds, sourceKind)
                      ELSE n.kinds]_vars

\* Clear has emptied a graph of two nodes and two edges that has a sourceKind.
C19_Witness ==
    /\ ret.op = "Clear"
    /\ ret.out = <<2, 2>>
    /\ sourceKind = "Base"
    /\ DOMAIN nodes = {}
    /\ edges = <<>>

\* -------------------------------------------------------------- NewEdge

\* The error NewEdge reports for the arguments: that of the first empty one.
FirstEmptyError(startNodeID, endNodeID, kind) ==
    CASE startNodeID = "" -> "start node ID cannot be empty"
      [] startNodeID # "" /\ endNodeID = "" -> "end node ID cannot be empty"
      [] startNodeID # "" /\ endNodeID # "" /\ kind = "" -> "edge kind cannot be empty"

\* C20: NewEdge(start, end, kind, props) succeeds exactly when start, end
\* and kind are all non-empty; the edge then has them as its start id, end
\* id and kind, and no later call on the edge changes them; on failure no
\* edge is returned and the error is that of the first empty argument in
\* the order start, end, kind.
C20_NewEdge ==
    [][/\ ret'.op = "NewEdge" =>
            LET a == ret'.arg
            IN  /\ ret'.ok <=> (a[1] # "" /\ a[2] # "" /\ a[3] # "")
                /\ ret'.ok =>
                     /\ ~edge'.isNil
                     /\ Triple(edge'.obj) = a
                /\ ~ret'.ok =>
                     /\ edge'.isNil
                     /\ ret'.out = FirstEmptyError(a[1], a[2], a[3])
       /\ (~edge.isNil /\ ret'.op # "NewEdge") =>
            /\ ~edge'.isNil
            /\ Triple(edge'.obj) = Triple(edge.obj)]_vars

\* NewEdge with an empty start and an empty kind has failed with the error
\* of the start and returned no edge.
C20_Witness ==
    /\ ret.op = "NewEdge"
    /\ ~ret.ok
    /\ ret.arg[1] = ""
    /\ ret.arg[3] = ""
    /\ ret.out = "start node ID cannot be empty"
    /\ edge.isNil


\* No label occurs twice in the sequence.
NoDuplicate(seq) == \A i, j \in 1..Len(seq) : seq[i] = seq[j] => i = j

\* C21: the kinds of every node hold no label twice; AddKind of a label
\* that is present leaves the kinds as they were; after RemoveKind(k) the
\* node does not have k.
C21_KindsAreASet ==
    /\ \A id \in DOMAIN nodes : NoDuplicate(nodes[id].kinds)
    /\ ret.op = "Node.AddKind" =>
           /\ (\E i \in 1..Len(ret.out) : ret.out[i] = ret.arg[2]) =>
                  nodes[ret.arg[1]].kinds = ret.out
           /\ SubSeq(nodes[ret.arg[1]].kinds, 1, Len(ret.out)) = ret.out
    /\ ret.op = "Node.RemoveKind" => ~HasKind(nodes[ret.arg[1]], ret.arg[2])

\* The ids the components hold, and how many components hold an id.
ComponentIds(components) == UNION {components[i] : i \in 1..Len(components)}
ComponentsOf(components, id) == {i \in 1..Len(components) : id \in components[i]}

\* C29: the components GetConnectedComponents returns hold the node ids of
\* the graph and nothing else, each id in exactly one component.
C29_ComponentsPartitionNodes ==
    ret.op = "GetConnectedComponents" =>
        /\ ComponentIds(ret.out.elems) = DOMAIN nodes
        /\ \A id \in DOMAIN nodes : Cardinality(ComponentsOf(ret.out.elems, id)) = 1

\* C30: in a graph made with a source kind, every node the graph holds
\* carries the source kind.
C30_SourceKindOnEveryNode ==
    sourceKind # "" => \A id \in DOMAIN nodes : HasKind(nodes[id], sourceKind)


\* The kinds of value the properties are meant to hold, apart from sequences.
ScalarKinds ==
    {"nil", "string", "bool", "int", "int8", "int16", "int32", "int64",
     "uint", "uint8", "uint16", "uint32", "uint64", "float32", "float64"}

\* A scalar, or a sequence of scalars.
IsAllowedValue(value) ==
    \/ value.t \in ScalarKinds
    \/ /\ value.t = "slice"
       /\ \A i \in 1..Len(arrays[value.v]) : arrays[value.v][i].t \in ScalarKinds

\* C22: SetProperty(key, value) stores the value when it is a scalar or a
\* sequence of scalars, and only then; otherwise it panics and the
\* properties are what they were.
C22_SetPropertyClosedSet ==
    ret.op = "Properties.SetProperty" =>
        /\ ret.ok <=> IsAllowedValue(ret.arg[2])
        /\ ret.ok => ret.arg[1] \in DOMAIN props /\ props[ret.arg[1]] = ret.arg[2]
        /\ ~ret.ok => props = ret.out

\* What a reader finds in the map m: every slice with its elements.
Contents(m, mem) ==
    [k \in DOMAIN m |-> IF m[k].t = "slice" THEN <<"slice", mem[m[k].v]>> ELSE m[k]]

\* C23: what the caller does to the returned map leaves the contents of the
\* Properties as they were, and SetProperty, RemoveProperty and Clear leave
\* the contents of a map returned earlier as they were.
C23_IndependentCopy ==
    [][/\ ret'.op \in {"dict[key] = value", "delete(dict, key)", "dict[key][0] = value"} =>
              Contents(props', arrays') = Contents(props, arrays)
       /\ ret'.op \in {"Properties.SetProperty", "Properties.RemoveProperty",
                       "Properties.Clear"} =>
              Contents(dict'.m, arrays') = Contents(dict.m, arrays)]_vars


\* The positions of the edge list whose edge passes the test.
EdgePositions(Test(_)) == {i \in 1..Len(edges) : Test(edges[i])}

\* C24: the nine queries leave sourceKind, the node map (every node's kinds
\* with it) and the edge list as they were; GetEdgesByKind, GetEdgesFromNode
\* and GetEdgesToNode return the edges whose kind, start or end is the
\* argument, each once, in the order of the edge list, and GetNodesByKind
\* returns the nodes that carry the kind, each once.
C24_QueriesArePure ==
    [][ret'.op \in {"GetNode", "GetNodesByKind", "GetEdgesByKind", "GetEdgesFromNode",
                    "GetEdgesToNode", "FindPaths", "GetConnectedComponents",
                    "ValidateGraph", "ExportJSON"} =>
           /\ sourceKind' = sourceKind
           /\ nodes' = nodes
           /\ edges' = edges
           /\ ret'.op = "GetEdgesByKind" =>
                  IsSelection(ret'.out.elems, edges,
                              EdgePositions(LAMBDA e : e.kind = ret'.arg))
           /\ ret'.op = "GetEdgesFromNode" =>
                  IsSelection(ret'.out.elems, edges,
                              EdgePositions(LAMBDA e : e.startNodeID = ret'.arg))
           /\ ret'.op = "GetEdgesToNode" =>
                  IsSelection(ret'.out.elems, edges,
                              EdgePositions(LAMBDA e : e.endNodeID = ret'.arg))
           /\ ret'.op = "GetNodesByKind" =>
                  LET carrying == {id \in DOMAIN nodes : Among(ret'.arg[1], nodes[id].kinds)}
                  IN  /\ Len(ret'.out.elems) = Cardinality(carrying)
                      /\ \A id \in carrying : Among(nodes[id], ret'.out.elems)]_vars

\* Of two edges of different kinds, GetEdgesByKind returned the second
\* one alone.
C24_Witness ==
    /\ ret.op = "GetEdgesByKind"
    /\ Len(edges) = 2
    /\ edges[1].kind # ret.arg
    /\ ret.out.elems = <<edges[2]>>

\* C27: no path is twice in the result of a FindPaths call.
C27_NoPathTwice ==
    ret.op = "FindPaths" => NoDuplicate(ret.out.elems)


\* C26: when s and e are nodes and s # e, FindPaths(s, e, maxDepth) returns
\* a path exactly when edges followed in their direction, at most maxDepth
\* of them, lead from s to e.
C26_FindsWhatIsReachable ==
    IsSearch =>
        (Len(ret.out.elems) > 0 <=> ret.arg[2] \in ReachWithin(ret.arg[1], ret.arg[3]))

\* A search with maxDepth 2 found the end, which no single edge leads to,
\* in a graph of three edges, none of them a self-loop.
C26_Witness ==
    /\ IsSearch
    /\ ret.arg[3] = 2
    /\ ~EdgeFromTo(ret.arg[1], ret.arg[2])
    /\ Len(ret.out.elems) = 1
    /\ Len(edges) = 3
    /\ \A i \in 1..Len(edges) : edges[i].startNodeID # edges[i].endNodeID


\* C25: during a FindPaths call no id is put on the queue twice and the end
\* id is never put on it; no id is twice in a path of the result.
C25_EnqueuedOnce ==
    /\ run.pc = "FindPaths" =>
           /\ NoDuplicate(run.enqueued)
           /\ ~Among(run.arg[2], run.enqueued)
    /\ "paths" \in DOMAIN run =>
           \A i \in 1..Len(run.paths.elems) : NoDuplicate(run.paths.elems[i])

\* A search that went through the loop in a graph with a cycle returned a
\* path of three ids.
C25_Witness ==
    /\ run.pc = "idle"
    /\ "paths" \in DOMAIN run
    /\ \E i \in 1..Len(run.paths.elems) : Len(run.paths.elems[i]) = 3
    /\ \E u, v \in DOMAIN nodes : u # v /\ EdgeFromTo(u, v) /\ EdgeFromTo(v, u)

\* C28: a FindPaths or GetConnectedComponents call that is in progress returns.
C28_CallsReturn == (run.pc # "idle") ~> (run.pc = "idle")

\* GetConnectedComponents returned on a graph with a cycle between two nodes.
C28_Witness ==
    /\ run.pc = "idle"
    /\ "components" \in DOMAIN run
    /\ Len(run.components.elems) > 0
    /\ \E u, v \in DOMAIN nodes : u # v /\ EdgeFromTo(u, v) /\ EdgeFromTo(v, u)

====
